---- MODULE Spec2Model ----
(***************************************************************************)
(* Request-lifecycle controller of the TextAnimator component              *)
(* (src/app/components/TextSlangTranslator.tsx).                           *)
(*                                                                         *)
(* The component runs in a single-threaded event loop: every handler runs  *)
(* to its first await (or to its end) without interleaving, and each       *)
(* continuation after an await is a separate step.  A handler reads the    *)
(* React state of the render it was created in: a setX(...) call inside a  *)
(* handler does not change the value that the same handler invocation,     *)
(* or a function it calls from the same render, reads afterwards.  In an   *)
(* action the unprimed variables are therefore the values the handler's    *)
(* closure sees and the primed ones the state after the queued updates.    *)
(* User events are dispatched on the latest committed render.              *)
(*                                                                         *)
(* Texts are sequences of one-character strings so that trim() and         *)
(* split('\n') are computed, not assumed.                                  *)
(*                                                                         *)
(* The network, the clipboard and the timers are the environment: a        *)
(* pending await settles at any later time, in any order.  An attempt      *)
(* whose controller was aborted settles with an AbortError only (fetch     *)
(* rejects the response promise and errors the body stream on abort); in   *)
(* a browser that rejection is delivered right after the aborting handler, *)
(* which is one of the orders explored here.                               *)
(*                                                                         *)
(* The mobile filter toggle and the "play again" button are not actions    *)
(* of this model: the first only flips isFilterOpen, the second changes    *)
(* no state (animateText gives the elements it would animate).             *)
(***************************************************************************)
EXTENDS Integers, Sequences, FiniteSets, TLC

VARIABLES
    inputText,          \* useState('')        line 23
    translatedText,     \* useState('')        line 24
    loading,            \* useState(false)     line 25
    selectedLevel,      \* useState('medium')  line 26
    isFilterOpen,       \* useState(false)     line 27
    copied,             \* useState(false)     line 28
    error,              \* useState('')        line 30
    abortControllerRef, \* useRef(null), 0 is null, i > 0 the controller of attempt i
    attempts,           \* the handleTranslate invocations suspended at an await
    sent,               \* body of the last request handed to fetch
    clipboardPending,   \* clipboard.writeText promises not yet settled
    copiedTimers,       \* pending setTimeout(() => setCopied(false), 2000)
    animQueue,          \* closures of the deferred animateText callbacks, oldest first
    mounted             \* FALSE once the cleanup of the mount effect has run

vars == <<inputText, translatedText, loading, selectedLevel, isFilterOpen, copied,
          error, abortControllerRef, attempts, sent, clipboardPending,
          copiedTimers, animQueue, mounted>>

(***************************************************************************)
(* Bounds of the model: attempts started in a run, clipboard writes and     *)
(* copied-timers outstanding, deferred animation callbacks outstanding.    *)
(***************************************************************************)
MaxAttempts == 3
MaxCopies == 1
MaxDeferred == 1

(***************************************************************************)
(* Static configuration and the inputs the environment draws from.         *)
(***************************************************************************)
slangLevels ==
    << [id |-> "mild",    label |-> "Mild Slang",
        prompt |-> "Convert to mild internet slang"],
       [id |-> "medium",  label |-> "Medium Slang",
        prompt |-> "Use moderate internet slang and abbreviations"],
       [id |-> "heavy",   label |-> "Heavy Slang",
        prompt |-> "Use heavy internet slang and abbreviations"],
       [id |-> "extreme", label |-> "Extreme Slang",
        prompt |-> "Use extreme internet slang with lots of emoji"],
       [id |-> "crazy",   label |-> "Crazy Slang",
        prompt |-> "Go absolutely wild with internet slang and emoji"] >>

CatalogIds == {slangLevels[k].id : k \in 1..Len(slangLevels)}

\* slangLevels.find(level => level.id === id): the first match, or undefined.
NoLevel == [id |-> "", label |-> "", prompt |-> ""]

\* FindLevel falling back to the first level: slangLevels.find(...) || slangLevels[0]
FindLevelOrFirst(id) ==
    LET hits == {k \in 1..Len(slangLevels) : slangLevels[k].id = id}
    IN  IF hits = {} THEN slangLevels[1]
        ELSE slangLevels[CHOOSE k \in hits : \A m \in hits : k <= m]

FindLevel(id) ==
    LET hits == {k \in 1..Len(slangLevels) : slangLevels[k].id = id}
    IN  IF hits = {} THEN NoLevel
        ELSE slangLevels[CHOOSE k \in hits : \A m \in hits : k <= m]

\* const isClient: set by the mount effect before any user event is handled.
isClient == TRUE

\* Values typed into the textarea (it starts empty).
InputTexts == { <<" ">>, <<"h", "i", " ">> }
\* Level ids handed to handleLevelSelect ("ultra" is not in the catalog).
LevelInputs == {"heavy", "ultra"}
\* HTTP statuses the endpoint answers with.
Statuses == {200, 404, 500}
\* message of an error thrown by the platform (fetch rejection, JSON parse).
ThrownMessages == {"Failed to fetch", ""}
\* data.translatedText of a parsed 2xx body; Missing is an absent field.
Missing == <<"undefined">>
ResponseTexts == { Missing, <<>>, <<"y", "o">>, <<"f", "r", "\n", "f", "r">> }

(***************************************************************************)
(* Pure helpers.                                                           *)
(***************************************************************************)
IsSpace(c) == c \in {" ", "\n", "\t"}

RECURSIVE TrimStart(_)
TrimStart(s) == IF s # <<>> /\ IsSpace(Head(s)) THEN TrimStart(Tail(s)) ELSE s

RECURSIVE TrimEnd(_)
TrimEnd(s) ==
    IF s # <<>> /\ IsSpace(s[Len(s)]) THEN TrimEnd(SubSeq(s, 1, Len(s) - 1)) ELSE s

\* String.prototype.trim
Trim(s) == TrimEnd(TrimStart(s))

\* Truthy testing only for an absent field: value !== undefined
DefinedOnly(v) == v # Missing

\* JavaScript truthiness of a string-or-undefined value.
Truthy(v) == v # Missing /\ v # <<>>

\* response.ok
ResponseOk(status) == status >= 200 /\ status <= 299

\* StatusMessage without the interpolated status
StatusMessageBare(status) == "Translation failed"

\* `Translation failed: ${response.status}`
StatusMessage(status) == "Translation failed: " \o ToString(status)

\* DisplayMessage without the fallback text: error.message
DisplayMessageRaw(message) == message

\* error.message || 'Translation failed. Please try again.'
DisplayMessage(message) ==
    IF message # "" THEN message ELSE "Translation failed. Please try again."

\* text.split('\n')
RECURSIVE SplitFrom(_, _)
SplitFrom(s, cur) ==
    IF s = <<>> THEN <<cur>>
    ELSE IF Head(s) = "\n" THEN <<cur>> \o SplitFrom(Tail(s), <<>>)
    ELSE SplitFrom(Tail(s), Append(cur, Head(s)))
Split(s) == SplitFrom(s, <<>>)

(***************************************************************************)
(* Initial state: the component after its first mount.                     *)
(***************************************************************************)
NoRequest == [text |-> <<>>, level |-> ""]

Init ==
    /\ inputText = <<>>
    /\ translatedText = <<>>
    /\ loading = FALSE
    /\ selectedLevel = "medium"
    /\ isFilterOpen = FALSE
    /\ copied = FALSE
    /\ error = ""
    /\ abortControllerRef = 0
    /\ attempts = <<>>
    /\ sent = NoRequest
    /\ clipboardPending = 0
    /\ copiedTimers = 0
    /\ animQueue = <<>>
    /\ mounted = TRUE

(***************************************************************************)
(* handleTranslate, lines 81-136.                                          *)
(***************************************************************************)
\* An attempt is one handleTranslate invocation suspended at `await fetch`
\* (pc "fetch") or at `await response.json()` (pc "json"); attempt i owns the
\* AbortController i.  closureText is the translatedText of the render the
\* invocation was created in, which its animateText reads.
InFlight(i) == attempts[i].pc \in {"fetch", "json"}

\* abortControllerRef.current.abort(), guarded by `if (abortControllerRef.current)`
AbortCurrent(as, ref) ==
    IF ref # 0 THEN [as EXCEPT ![ref].aborted = TRUE] ELSE as

\* ReturnsEarly with the trim forgotten: !inputText
ReturnsEarlyUntrimmed(text, isLoading, forceTranslate) ==
    text = <<>> \/ (isLoading /\ ~forceTranslate)

\* ReturnsEarly without the test of loading: if (!inputText.trim()) return;
ReturnsEarlyBlankOnly(text, isLoading, forceTranslate) == Trim(text) = <<>>

\* ReturnsEarly refusing to run while an error is displayed
ReturnsEarlyOnError(text, isLoading, forceTranslate) ==
    Trim(text) = <<>> \/ (isLoading /\ ~forceTranslate) \/ error # ""

\* line 82: if (!inputText.trim() || (loading && !forceTranslate)) return;
ReturnsEarly(text, isLoading, forceTranslate) ==
    Trim(text) = <<>> \/ (isLoading /\ ~forceTranslate)

\* IsAbortError testing for the name another HTTP client gives a cancellation
IsCanceledError(name) == name = "CanceledError"

\* line 127: if (error.name === 'AbortError') return;
IsAbortError(name) == name = "AbortError"

Thrown(name, message) == [name |-> name, message |-> message]
AbortError == Thrown("AbortError", "The user aborted a request.")

\* FinallyLoading with setLoading(false) as the last statement of the try block
LoadingClearedInTry(thrown) == IF thrown.name = "" THEN FALSE ELSE loading

\* lines 132-133: finally { setLoading(false); ... }, whatever was thrown
FinallyLoading(thrown) == FALSE

\* The synchronous part of handleTranslate(forceTranslate): up to `await fetch`,
\* or to the end of the function when it returns early or throws before fetch.
handleTranslate(forceTranslate) ==
    IF ReturnsEarly(inputText, loading, forceTranslate)
    THEN UNCHANGED <<loading, error, translatedText, abortControllerRef, attempts, sent>>
    ELSE LET cancelled == AbortCurrent(attempts, abortControllerRef)
             selectedLevelConfig == FindLevel(selectedLevel)
         IN  IF selectedLevelConfig = NoLevel
             THEN \* throw new Error('Invalid slang level'): catch and finally run at once
                  /\ attempts' = cancelled
                  /\ error' = DisplayMessage("Invalid slang level")
                  /\ translatedText' = <<>>
                  /\ loading' = FinallyLoading(Thrown("Error", "Invalid slang level"))
                  /\ abortControllerRef' = 0
                  /\ UNCHANGED sent
             ELSE /\ Len(attempts) < MaxAttempts
                  /\ attempts' = Append(cancelled,
                        [pc |-> "fetch", aborted |-> FALSE, closureText |-> translatedText])
                  /\ abortControllerRef' = Len(attempts) + 1
                  /\ loading' = TRUE
                  /\ error' = ""
                  /\ sent' = [text |-> inputText, level |-> selectedLevelConfig.prompt]
                  /\ UNCHANGED translatedText

\* The end of attempt i: the rest of the try block on success, or the catch
\* block for the thrown error, then the finally block (lines 117-135).
\* thrown = Thrown("", "") stands for no error.
\* A completed attempt stays in attempts as a "done" record that keeps only
\* whether it had been aborted.
Settle(i, thrown, value) ==
    /\ attempts' = [attempts EXCEPT ![i].pc = "done", ![i].closureText = <<>>]
    /\ IF thrown.name = ""
       THEN /\ Len(animQueue) < MaxDeferred
            /\ translatedText' = value
            /\ isFilterOpen' = FALSE
            /\ animQueue' = IF isClient THEN Append(animQueue, attempts[i].closureText)
                            ELSE animQueue
            /\ UNCHANGED error
       ELSE IF IsAbortError(thrown.name)
       THEN UNCHANGED <<translatedText, error, isFilterOpen, animQueue>>
       ELSE /\ error' = DisplayMessage(thrown.message)
            /\ translatedText' = <<>>
            /\ UNCHANGED <<isFilterOpen, animQueue>>
    /\ loading' = FinallyLoading(thrown)
    /\ abortControllerRef' = 0

(***************************************************************************)
(* User operations.                                                        *)
(***************************************************************************)
\* onChange={(e) => setInputText(e.target.value)}
SetInputText(text) ==
    /\ mounted
    /\ inputText' = text
    /\ UNCHANGED <<translatedText, loading, selectedLevel, isFilterOpen, copied, error,
                   abortControllerRef, attempts, sent, clipboardPending, copiedTimers,
                   animQueue, mounted>>

HandleTranslate(forceTranslate) ==
    /\ mounted
    /\ handleTranslate(forceTranslate)
    /\ UNCHANGED <<inputText, selectedLevel, isFilterOpen, copied, clipboardPending,
                   copiedTimers, animQueue, mounted>>

\* lines 138-143.  handleTranslate(true) runs in the closure of the current
\* render, so it reads the selectedLevel of that render, not levelId.
HandleLevelSelect(levelId) ==
    /\ mounted
    /\ selectedLevel' = levelId
    /\ IF Trim(inputText) # <<>>
       THEN handleTranslate(TRUE)
       ELSE UNCHANGED <<loading, error, translatedText, abortControllerRef, attempts, sent>>
    /\ UNCHANGED <<inputText, isFilterOpen, copied, clipboardPending, copiedTimers,
                   animQueue, mounted>>

\* CopyReturnsEarly without the test of the text
CopyReturnsEarlyServerOnly(text) == ~isClient

\* line 69: if (!isClient || !translatedText) return;
CopyReturnsEarly(text) == ~isClient \/ text = <<>>

\* handleCopy up to `await navigator.clipboard.writeText(translatedText)`, lines 68-72
HandleCopy ==
    /\ mounted
    /\ IF CopyReturnsEarly(translatedText)
       THEN UNCHANGED clipboardPending
       ELSE /\ clipboardPending + copiedTimers < MaxCopies
            /\ clipboardPending' = clipboardPending + 1
    /\ UNCHANGED <<inputText, translatedText, loading, selectedLevel, isFilterOpen, copied,
                   error, abortControllerRef, attempts, sent, copiedTimers, animQueue, mounted>>

(***************************************************************************)
(* Continuations run by the event loop.                                    *)
(***************************************************************************)
\* writeText resolved: setCopied(true); setTimeout(() => setCopied(false), 2000)
ClipboardResolves ==
    /\ mounted
    /\ clipboardPending > 0
    /\ clipboardPending' = clipboardPending - 1
    /\ copied' = TRUE
    /\ copiedTimers' = copiedTimers + 1
    /\ UNCHANGED <<inputText, translatedText, loading, selectedLevel, isFilterOpen, error,
                   abortControllerRef, attempts, sent, animQueue, mounted>>

\* writeText rejected: setError('Failed to copy text')
ClipboardRejects ==
    /\ mounted
    /\ clipboardPending > 0
    /\ clipboardPending' = clipboardPending - 1
    /\ error' = "Failed to copy text"
    /\ UNCHANGED <<inputText, translatedText, loading, selectedLevel, isFilterOpen, copied,
                   abortControllerRef, attempts, sent, copiedTimers, animQueue, mounted>>

\* the 2000 ms timer fires: setCopied(false)
CopiedTimeout ==
    /\ mounted
    /\ copiedTimers > 0
    /\ copiedTimers' = copiedTimers - 1
    /\ copied' = FALSE
    /\ UNCHANGED <<inputText, translatedText, loading, selectedLevel, isFilterOpen, error,
                   abortControllerRef, attempts, sent, clipboardPending, animQueue, mounted>>

\* `await fetch` resolves with a response of the given status (lines 97-109).
FetchResolves(i, status) ==
    /\ mounted
    /\ attempts[i].pc = "fetch"
    /\ ~attempts[i].aborted
    /\ IF ResponseOk(status)
       THEN /\ attempts' = [attempts EXCEPT ![i].pc = "json"]
            /\ UNCHANGED <<translatedText, loading, isFilterOpen, error,
                           abortControllerRef, animQueue>>
       ELSE Settle(i, Thrown("Error", StatusMessage(status)), <<>>)
    /\ UNCHANGED <<inputText, selectedLevel, copied, sent, clipboardPending, copiedTimers, mounted>>

\* `await fetch` rejects with a network error.
FetchRejects(i, message) ==
    /\ mounted
    /\ attempts[i].pc = "fetch"
    /\ ~attempts[i].aborted
    /\ Settle(i, Thrown("TypeError", message), <<>>)
    /\ UNCHANGED <<inputText, selectedLevel, copied, sent, clipboardPending, copiedTimers, mounted>>

\* `await response.json()` resolves with a body whose translatedText is value
\* (lines 111-125).
JsonResolves(i, value) ==
    /\ mounted
    /\ attempts[i].pc = "json"
    /\ ~attempts[i].aborted
    /\ IF ~Truthy(value)
       THEN Settle(i, Thrown("Error", "No translation received"), <<>>)
       ELSE Settle(i, Thrown("", ""), value)
    /\ UNCHANGED <<inputText, selectedLevel, copied, sent, clipboardPending, copiedTimers, mounted>>

\* `await response.json()` rejects: the body is not JSON.
JsonRejects(i, message) ==
    /\ mounted
    /\ attempts[i].pc = "json"
    /\ ~attempts[i].aborted
    /\ Settle(i, Thrown("SyntaxError", message), <<>>)
    /\ UNCHANGED <<inputText, selectedLevel, copied, sent, clipboardPending, copiedTimers, mounted>>

\* The pending await of an aborted attempt rejects with an AbortError, whether
\* the attempt was waiting for the response or for its body.
AbortRejects(i) ==
    /\ mounted
    /\ InFlight(i)
    /\ attempts[i].aborted
    /\ Settle(i, AbortError, <<>>)
    /\ UNCHANGED <<inputText, selectedLevel, copied, sent, clipboardPending, copiedTimers, mounted>>

(***************************************************************************)
(* Presentation animator, lines 46-66.                                     *)
(***************************************************************************)
\* Children of the text container of the current render (lines 334-340).
Placeholder == <<"Translating...">>
RenderedChildren ==
    IF loading THEN <<Placeholder>>
    ELSE IF translatedText = <<>> THEN <<>>
    ELSE Split(translatedText)

\* The elements animateText hands to gsap.fromTo when its closure holds
\* closureText; <<>> when it returns without animating.
animateText(closureText) ==
    IF ~isClient \/ closureText = <<>> THEN <<>>
    ELSE RenderedChildren

\* requestAnimationFrame(() => setTimeout(animateText, 100)) comes due.
AnimateDeferred ==
    /\ mounted
    /\ animQueue # <<>>
    /\ animQueue' = Tail(animQueue)
    /\ UNCHANGED <<inputText, translatedText, loading, selectedLevel, isFilterOpen, copied,
                   error, abortControllerRef, attempts, sent, clipboardPending,
                   copiedTimers, mounted>>

\* The cleanup of the mount effect, lines 39-43: the component is unmounted.
\* React drops the state updates of an unmounted component, so continuations
\* that settle afterwards change nothing that is displayed; the run ends here.
\* Unmount is a step of SpecLifetime only: Spec describes the mounted component.
Unmount ==
    /\ mounted
    /\ mounted' = FALSE
    /\ attempts' = AbortCurrent(attempts, abortControllerRef)
    /\ UNCHANGED <<inputText, translatedText, loading, selectedLevel, isFilterOpen, copied,
                   error, abortControllerRef, sent, clipboardPending, copiedTimers,
                   animQueue>>

Next ==
    \/ \E text \in InputTexts : SetInputText(text)
    \/ \E forceTranslate \in BOOLEAN : HandleTranslate(forceTranslate)
    \/ \E levelId \in LevelInputs : HandleLevelSelect(levelId)
    \/ HandleCopy
    \/ ClipboardResolves
    \/ ClipboardRejects
    \/ CopiedTimeout
    \/ \E i \in 1..Len(attempts), status \in Statuses : FetchResolves(i, status)
    \/ \E i \in 1..Len(attempts), message \in ThrownMessages : FetchRejects(i, message)
    \/ \E i \in 1..Len(attempts), value \in ResponseTexts : JsonResolves(i, value)
    \/ \E i \in 1..Len(attempts), message \in ThrownMessages : JsonRejects(i, message)
    \/ \E i \in 1..Len(attempts) : AbortRejects(i)
    \/ AnimateDeferred

\* The component while it is mounted.
Spec == Init /\ [][Next]_vars

\* The whole lifetime of the component, ended by its unmount.
NextLifetime == Next \/ Unmount

SpecLifetime == Init /\ [][NextLifetime]_vars

(***************************************************************************)
(* Vocabulary of the properties.                                           *)
(***************************************************************************)
Attempts == 1..Len(attempts)
\* attempt i is pending and not cancelled
Pending(i) == InFlight(i) /\ ~attempts[i].aborted
\* this step runs the completion handler (catch/finally) of attempt i
Completes(i) == InFlight(i) /\ attempts'[i].pc = "done"

(***************************************************************************)
(* C1: in every reachable state at most one translation attempt is pending *)
(* and not cancelled.                                                      *)
(***************************************************************************)
C1_AtMostOnePending == Cardinality({i \in Attempts : Pending(i)}) <= 1

(***************************************************************************)
(* C2: the completion handler of a cancelled attempt leaves loading        *)
(* untouched.                                                              *)
(***************************************************************************)
C2_CancelledKeepsLoading ==
    [][\A i \in Attempts : AbortRejects(i) => loading' = loading]_vars

(***************************************************************************)
(* C3: once a newer attempt has been started, the completion of an earlier *)
(* attempt changes neither translatedText nor error.                       *)
(***************************************************************************)
C3_SupersededNeverWrites ==
    [][\A i \in Attempts :
          (Completes(i) /\ i < Len(attempts))
              => (translatedText' = translatedText /\ error' = error)]_vars

(***************************************************************************)
(* C4: a completing attempt clears abortControllerRef only if it still     *)
(* refers to that attempt; the handle of another attempt is left in place. *)
(***************************************************************************)
C4_ClearsOnlyOwnHandle ==
    [][\A i \in Attempts :
          (Completes(i) /\ abortControllerRef # i)
              => abortControllerRef' = abortControllerRef]_vars

(***************************************************************************)
(* C5: handleLevelSelect(levelId) with a catalog id and non-blank          *)
(* inputText issues a request whose level is the prompt of levelId and     *)
(* whose text is inputText.                                                *)
(***************************************************************************)
C5_RequestCarriesNewLevel ==
    [][\A levelId \in LevelInputs \cap CatalogIds :
          (HandleLevelSelect(levelId) /\ Trim(inputText) # <<>>)
              => /\ Len(attempts') = Len(attempts) + 1
                 /\ sent' = [text |-> inputText, level |-> FindLevel(levelId).prompt]]_vars

(***************************************************************************)
(* C6: the completion handler of an aborted attempt sets neither error nor *)
(* translatedText, whether the abort came while waiting for the response   *)
(* or while reading its body.                                              *)
(***************************************************************************)
C6_CancelledNeverReported ==
    [][\A i \in Attempts :
          (Completes(i) /\ attempts[i].aborted)
              => (error' = error /\ translatedText' = translatedText)]_vars

\* one cancelled attempt has completed and another was aborted while reading
\* its body, with a stored result and no error on display
C6_Witness ==
    /\ \E i \in Attempts : attempts[i].pc = "done" /\ attempts[i].aborted
    /\ \E i \in Attempts : attempts[i].pc = "json" /\ attempts[i].aborted
    /\ translatedText # <<>>
    /\ error = ""

(***************************************************************************)
(* C7: a non-cancelled attempt that completes with a 2xx response and a    *)
(* non-empty translatedText ends with that text stored, loading false and  *)
(* error empty, whatever copies, edits or level selections with blank      *)
(* input happened while it was in flight.  No attempt has been cancelled   *)
(* in the runs considered, so no other attempt overlapped this one.        *)
(***************************************************************************)
C7_SuccessState ==
    [][\A i \in Attempts : \A value \in ResponseTexts \ {Missing, <<>>} :
          (JsonResolves(i, value) /\ \A j \in Attempts : ~attempts[j].aborted)
              => /\ translatedText' = value
                 /\ loading' = FALSE
                 /\ error' = ""]_vars

(***************************************************************************)
(* C8: while the component is mounted, handleTranslate with blank          *)
(* inputText is a no-op for either value of forceTranslate: the call is    *)
(* accepted and no variable changes (no request sent, no attempt aborted). *)
(***************************************************************************)
C8_BlankInputNoOp ==
    (mounted /\ Trim(inputText) = <<>>) =>
        \A forceTranslate \in BOOLEAN :
            /\ ENABLED HandleTranslate(forceTranslate)
            /\ ~ENABLED (HandleTranslate(forceTranslate) /\ vars' # vars)

\* whitespace-only input while a request is in flight
C8_Witness ==
    /\ mounted
    /\ inputText # <<>>
    /\ Trim(inputText) = <<>>
    /\ loading
    /\ abortControllerRef # 0
    /\ \E i \in Attempts : Pending(i)

(***************************************************************************)
(* C9: a non-cancelled attempt whose 2xx body has a missing or empty       *)
(* translatedText ends with error set, translatedText cleared and loading  *)
(* false.                                                                  *)
(***************************************************************************)
C9_EmptyResultFails ==
    [][\A i \in Attempts : \A value \in {Missing, <<>>} :
          JsonResolves(i, value)
              => /\ error' # ""
                 /\ translatedText' = <<>>
                 /\ loading' = FALSE]_vars

C9_Witness ==
    /\ error = "No translation received"
    /\ translatedText = <<>>
    /\ ~loading
    /\ \E i \in Attempts : attempts[i].pc = "done" /\ ~attempts[i].aborted

(***************************************************************************)
(* C10: a non-cancelled attempt that receives a non-2xx status s ends with *)
(* error exactly "Translation failed: s", translatedText cleared and       *)
(* loading false.                                                          *)
(***************************************************************************)
C10_StatusFailure ==
    [][\A i \in Attempts : \A status \in Statuses \ (200..299) :
          FetchResolves(i, status)
              => /\ error' = "Translation failed: " \o ToString(status)
                 /\ translatedText' = <<>>
                 /\ loading' = FALSE]_vars

C10_Witness ==
    /\ error = "Translation failed: 404"
    /\ translatedText = <<>>
    /\ ~loading
    /\ \E i \in Attempts : attempts[i].pc = "done" /\ ~attempts[i].aborted

(***************************************************************************)
(* C11: handleLevelSelect with a level id that is not in the catalog is a  *)
(* silent no-op: selectedLevel keeps its value, no request is issued and   *)
(* none is cancelled, so selectedLevel is always an id of the catalog.     *)
(***************************************************************************)
C11_UnknownLevelNoOp ==
    [][\A levelId \in LevelInputs \ CatalogIds :
          HandleLevelSelect(levelId)
              => /\ selectedLevel' = selectedLevel
                 /\ selectedLevel' \in CatalogIds
                 /\ attempts' = attempts
                 /\ sent' = sent]_vars

(***************************************************************************)
(* C12: when handleTranslate runs with non-blank input while selectedLevel *)
(* is not an id of the catalog, no HTTP request is issued, error becomes   *)
(* non-empty, translatedText is cleared and loading ends false.            *)
(***************************************************************************)
C12_InvalidLevelFails ==
    [][\A forceTranslate \in BOOLEAN :
          ( /\ HandleTranslate(forceTranslate)
            /\ Trim(inputText) # <<>>
            /\ forceTranslate \/ ~loading
            /\ \A k \in 1..Len(slangLevels) : slangLevels[k].id # selectedLevel )
              => /\ Len(attempts') = Len(attempts)
                 /\ sent' = sent
                 /\ error' # ""
                 /\ translatedText' = <<>>
                 /\ loading' = FALSE]_vars

C12_Witness ==
    /\ selectedLevel \notin CatalogIds
    /\ Trim(inputText) # <<>>
    /\ error = "Invalid slang level"
    /\ translatedText = <<>>
    /\ ~loading
    /\ sent # NoRequest

(***************************************************************************)
(* C13 (under SpecLifetime): when the component is unmounted every        *)
(* attempt still in flight has been cancelled, whatever happened before.   *)
(***************************************************************************)
C13_UnmountCancelsAll ==
    ~mounted => \A i \in Attempts : InFlight(i) => attempts[i].aborted

\* A step in which a translation attempt fails for a reason other than a
\* cancellation: handleTranslate throws on the level lookup, fetch or json()
\* rejects, the status is not 2xx, or the body carries no translatedText.
TranslationFailure ==
    \/ \E i \in Attempts :
          /\ Completes(i)
          /\ ~attempts[i].aborted
          /\ \/ \E message \in ThrownMessages :
                   FetchRejects(i, message) \/ JsonRejects(i, message)
             \/ \E status \in Statuses \ (200..299) : FetchResolves(i, status)
             \/ \E value \in {Missing, <<>>} : JsonResolves(i, value)
    \/ /\ selectedLevel \notin CatalogIds
       /\ Trim(inputText) # <<>>
       /\ \E forceTranslate \in BOOLEAN :
             (forceTranslate \/ ~loading) /\ HandleTranslate(forceTranslate)

(***************************************************************************)
(* C14 as stated: every failure other than a cancellation (invalid level,  *)
(* transport failure, non-2xx status, empty result, clipboard failure)     *)
(* leaves error non-empty and translatedText cleared.                      *)
(***************************************************************************)
C14_EveryFailureClears ==
    [][(ClipboardRejects \/ TranslationFailure)
          => error' # "" /\ translatedText' = <<>>]_vars

(***************************************************************************)
(* C14 amended: every failure of a translation attempt other than a        *)
(* cancellation (invalid level, transport failure, non-2xx status, empty   *)
(* result) leaves error non-empty and translatedText cleared; a clipboard  *)
(* failure leaves error non-empty and translatedText as it was.            *)
(***************************************************************************)
C14_TranslationFailureClears ==
    [][/\ ClipboardRejects => error' # "" /\ translatedText' = translatedText
       /\ TranslationFailure
             => error' # "" /\ translatedText' = <<>>]_vars

C14_Witness ==
    /\ error = "Failed to copy text"
    /\ translatedText # <<>>
    /\ \E i \in Attempts : attempts[i].pc = "done" /\ ~attempts[i].aborted

(***************************************************************************)
(* C15: the animation callback deferred by a successful attempt, when it   *)
(* comes due with the result displayed (not loading, translatedText        *)
(* non-empty), animates the rendered lines of translatedText; this holds   *)
(* for every successful translation, the first one included.               *)
(***************************************************************************)
C15_SuccessIsAnimated ==
    [][(AnimateDeferred /\ ~loading /\ translatedText # <<>>)
          => /\ animateText(Head(animQueue)) # <<>>
             /\ animateText(Head(animQueue)) = Split(translatedText)]_vars

(***************************************************************************)
(* C16: an invocation of animateText, whether the deferred callback that   *)
(* is next due or the "play again" button (rendered while translatedText   *)
(* is non-empty), animates nothing unless the lines of translatedText are  *)
(* rendered; in particular it animates nothing while loading is true and   *)
(* the "Translating..." placeholder occupies the text container.           *)
(***************************************************************************)
C16_AnimatesOnlyResultLines ==
    \A closureText \in (IF animQueue # <<>> THEN {Head(animQueue)} ELSE {})
                       \cup (IF translatedText # <<>> THEN {translatedText} ELSE {}) :
        animateText(closureText) # <<>>
            => ~loading /\ animateText(closureText) = Split(translatedText)

(***************************************************************************)
(* C17: the resolution of a clipboard write sets copied to true and the    *)
(* 2-second timer sets it back to false; no step that changes copied, the *)
(* pending timers or the pending clipboard writes is a step that starts,   *)
(* cancels or completes a translation; handleCopy with an empty            *)
(* translatedText writes nothing and changes no state.                     *)
(***************************************************************************)
C17_CopiedIndicator ==
    [][/\ ClipboardResolves => copied' = TRUE /\ copiedTimers' = copiedTimers + 1
       /\ CopiedTimeout => copied' = FALSE
       /\ ( \/ copied' # copied
            \/ copiedTimers' # copiedTimers
            \/ clipboardPending' # clipboardPending )
             => ~( \/ \E forceTranslate \in BOOLEAN : HandleTranslate(forceTranslate)
                   \/ \E levelId \in LevelInputs : HandleLevelSelect(levelId)
                   \/ \E i \in Attempts :
                         \/ AbortRejects(i)
                         \/ \E status \in Statuses : FetchResolves(i, status)
                         \/ \E value \in ResponseTexts : JsonResolves(i, value)
                         \/ \E message \in ThrownMessages :
                               FetchRejects(i, message) \/ JsonRejects(i, message) )
       /\ (HandleCopy /\ translatedText = <<>>) => UNCHANGED vars]_vars

C17_Witness ==
    /\ copied
    /\ copiedTimers > 0
    /\ loading
    /\ \E i \in Attempts : InFlight(i) /\ ~attempts[i].aborted
    /\ \E i \in Attempts : attempts[i].pc = "done"

IssuesRequest(forceTranslate) ==
    /\ HandleTranslate(forceTranslate)
    /\ Len(attempts') = Len(attempts) + 1
    /\ attempts'[Len(attempts')].pc = "fetch"
    /\ ~attempts'[Len(attempts')].aborted
    /\ sent'.text = inputText
    /\ loading' = TRUE
    /\ error' = ""

\* An error is displayed, the input is non-blank, the selected level is in the
\* catalog and the bound on attempts leaves room for one more.
CanRetry ==
    /\ mounted
    /\ error # ""
    /\ Trim(inputText) # <<>>
    /\ \E k \in 1..Len(slangLevels) : slangLevels[k].id = selectedLevel
    /\ Len(attempts) < MaxAttempts

(***************************************************************************)
(* C19 as stated: no failure is absorbing.  Every failure that has been    *)
(* handled (a failed attempt or a clipboard failure) leaves loading false, *)
(* and while its error is displayed a handleTranslate with non-blank input *)
(* and a valid level issues a new request and clears error.                *)
(***************************************************************************)
C19_FailureLeavesIdle ==
    /\ [][(ClipboardRejects \/ TranslationFailure) => loading' = FALSE]_vars
    /\ [](CanRetry => \A forceTranslate \in BOOLEAN :
              /\ ENABLED IssuesRequest(forceTranslate)
              /\ ~ENABLED (HandleTranslate(forceTranslate) /\ ~IssuesRequest(forceTranslate)))

(***************************************************************************)
(* C19 amended: a failed attempt that has been handled leaves loading      *)
(* false and a clipboard failure leaves loading as it was; while the error *)
(* of either is displayed, handleTranslate(true) with non-blank input and  *)
(* a valid level issues a new request and clears error, and so does        *)
(* handleTranslate(false) when loading is false.                           *)
(***************************************************************************)
C19_FailureNotAbsorbing ==
    /\ [][/\ TranslationFailure => loading' = FALSE
          /\ ClipboardRejects => loading' = loading]_vars
    /\ [](CanRetry => \A forceTranslate \in BOOLEAN :
              (forceTranslate \/ ~loading)
                  => /\ ENABLED IssuesRequest(forceTranslate)
                     /\ ~ENABLED (HandleTranslate(forceTranslate)
                                     /\ ~IssuesRequest(forceTranslate)))

\* a clipboard failure is displayed while a request is in flight
C19_Witness ==
    /\ CanRetry
    /\ error = "Failed to copy text"
    /\ loading
    /\ \E i \in Attempts : InFlight(i) /\ ~attempts[i].aborted

(***************************************************************************)
(* C20: loading is never stuck at true: whenever loading is true, at least *)
(* one started attempt has not yet run its completion handler, so once     *)
(* every started attempt has completed loading is false.                   *)
(***************************************************************************)
C20_LoadingHasAttempt ==
    loading => \E i \in Attempts : attempts[i].pc # "done"

\* loading is true again after an earlier attempt has completed
C20_Witness ==
    /\ loading
    /\ \E i \in Attempts : attempts[i].pc = "done"
    /\ \E i \in Attempts : attempts[i].pc = "json"

====
